---- MODULE Spec2Model ----
(***************************************************************************)
(* A model of student.py: the JSON store of a learner's concept model      *)
(* (load_model / save_model with backup-before-write and temp-file-then-   *)
(* rename), the name lookup find_concept, and the command handlers that    *)
(* call them.                                                              *)
(*                                                                         *)
(* Files are modelled by their content class: absent, a complete JSON text *)
(* (json_dump of a value), text that json.load rejects, or a truncated     *)
(* write.  Every file operation of save_model is one step, so that an I/O  *)
(* error or the end of the process between any two of them is a state of   *)
(* the model.  Reads are assumed not to fail with an I/O error; writes may.*)
(*                                                                         *)
(* Specifications: Spec (the store under one caller), SpecCmd (add and     *)
(* update), SpecNotes (struggle, breakthrough, session-end), SpecLinks     *)
(* (link, unlink), SpecShow (link, show), SpecMastery (add, update,        *)
(* session-end on one concept), SpecNames (add with the empty name),       *)
(* SpecRelated (add --related, link, unlink),                              *)
(* SpecMisc and SpecBelief (misconception add and resolve), SpecRace (two  *)
(* processes inside save_model), SpecLost (two concurrent add commands)    *)
(* and SpecFind (find_concept alone).                                      *)
(***************************************************************************)
EXTENDS Integers, Sequences, FiniteSets, TLC

VARIABLES
    primary,    \* DATA_FILE
    backup,     \* DATA_FILE.with_suffix('.json.backup')
    temp,       \* DATA_FILE.with_suffix('.json.tmp')
    clock,      \* datetime.now()
    pc,         \* per process: the position in load_model / save_model / the caller
    mem,        \* per process: the in-memory model (the dict `model`)
    cmd,        \* per process: the command being run and its arguments (args)
    found,      \* per process: the last value find_concept returned
    hist,       \* per process: what the current invocation has done so far
    faults,     \* number of external corruptions of a file so far
    fd          \* per process: the file that its handle opened at line 128 is now

vars == <<primary, backup, temp, clock, pc, mem, cmd, found, hist, faults, fd>>

\* ------------------------------------------------------------------ bounds

MaxClock == 1
MaxFaults == 1

Procs == {1, 2}
\* A single invocation at a time: the tool is single-threaded and synchronous.
Writers == {1}

\* ---------------------------------------------------------- JSON documents

\* A JSON value that is no container (null, a number, true): `key in value`
\* raises TypeError on it.
JsonNull == [scalar |-> "null"]
\* A JSON object holding none of the required keys.
JsonNoKeys == [junk |-> "x"]
\* No in-memory model.
NoDoc == [none |-> TRUE]

SCHEMA_VERSION == "1.0"

get_default_model(now) ==
    [schema_version |-> SCHEMA_VERSION,
     metadata |-> [created |-> now, last_updated |-> now, student_profile |-> ""],
     concepts |-> <<>>,
     misconceptions |-> <<>>,
     sessions |-> <<>>]

required_keys == {"metadata", "concepts", "sessions"}
required_metadata == {"created", "last_updated"}

\* Faulty variant of validate_model: the keys of metadata are not checked.
validate_model_shallow(model) ==
    IF "scalar" \in DOMAIN model THEN "TypeError"
    ELSE IF ~(required_keys \subseteq DOMAIN model) THEN "False"
    ELSE "True"

\* "True", "False", or "TypeError" when `key in model` is applied to a value
\* that is no container.
validate_model(model) ==
    IF "scalar" \in DOMAIN model THEN "TypeError"
    ELSE IF ~(required_keys \subseteq DOMAIN model) THEN "False"
    ELSE IF "scalar" \in DOMAIN model.metadata THEN "TypeError"
    ELSE IF ~(required_metadata \subseteq DOMAIN model.metadata) THEN "False"
    ELSE "True"

\* d[k] = v on a dict: the key is added when it is missing.
set_field(d, k, v) == [x \in DOMAIN d \cup {k} |-> IF x = k THEN v ELSE d[x]]

\* ------------------------------------------------------------------- files

Absent == [kind |-> "absent"]
\* A file opened for writing whose content was not (completely) written.
Truncated == [kind |-> "partial"]
\* Text that is not JSON.
NotJson == [kind |-> "malformed"]

\* The text of one document overwritten in part by the text of another.
Mixed == [kind |-> "mixed"]

\* json.dump(model, f, indent=2, ensure_ascii=False): the complete text.
json_dump(model) == [kind |-> "json", val |-> model]
\* json.load(f) succeeds exactly on a complete JSON text (JSONDecodeError otherwise).
json_parses(file) == file.kind = "json"
json_load(file) == file.val

path_exists(file) == file.kind # "absent"

\* The file holds a document that passes validate_model.
HoldsValid(file) == json_parses(file) /\ validate_model(json_load(file)) = "True"
\* The file exists and load_model cannot use it.
IsCorrupt(file) == path_exists(file) /\ ~HoldsValid(file)

Files == [primary |-> primary, backup |-> backup, temp |-> temp]

\* ------------------------------------------------------- invocation history

NoHist ==
    [startAt |-> [primary |-> Absent, backup |-> Absent, temp |-> Absent],
     saveAt |-> [primary |-> Absent, backup |-> Absent, temp |-> Absent],
     saveArg |-> NoDoc,   \* the model save_model was last called with
     lastSave |-> "none", \* what the last save_model call returned
     inLoad |-> FALSE,    \* save_model is running inside load_model
     loads |-> 0,         \* load_model calls of this invocation
     heals |-> 0,         \* save_model calls made by load_model
     owns |-> 0,          \* save_model calls made by the caller
     loaded |-> NoDoc,    \* what load_model returned
     renamedLast |-> FALSE]  \* the last rename onto DATA_FILE was this call's

NoCmd == [name |-> "none"]


\* ------------------------------------------------------------- save_model

\* save_model is entered: by load_model's restore (nested) or by a caller.
call_save(p, model, nested) ==
    /\ mem' = [mem EXCEPT ![p] = model]
    /\ pc' = [pc EXCEPT ![p] = "save_model"]
    /\ hist' = [hist EXCEPT ![p].saveAt = Files,
                            ![p].saveArg = model,
                            ![p].inLoad = nested,
                            ![p].heals = IF nested THEN @ + 1 ELSE @,
                            ![p].owns = IF nested THEN @ ELSE @ + 1]

\* `return ok` of save_model; inside load_model the result is dropped and
\* load_model returns the restored model (lines 73-74, 94-95).
save_return(p, ok) ==
    /\ pc' = [pc EXCEPT ![p] = IF hist[p].inLoad THEN "load_done" ELSE "save_done"]
    /\ hist' = [hist EXCEPT ![p].lastSave = IF ok THEN "True" ELSE "False",
                            ![p].inLoad = FALSE,
                            ![p].loaded = IF hist[p].inLoad THEN mem[p] ELSE @]
    /\ UNCHANGED mem

goto(p, label) ==
    /\ pc' = [pc EXCEPT ![p] = label]
    /\ UNCHANGED hist

\* Faulty variant of save_validate: metadata.created is refreshed as well.
save_validate_recreate(p) ==
    /\ pc[p] = "save_model"
    /\ IF validate_model(mem[p]) # "True"
         THEN save_return(p, FALSE)
         ELSE /\ mem' = [mem EXCEPT ![p].metadata =
                                 set_field(set_field(@, "created", clock),
                                           "last_updated", clock)]
              /\ goto(p, "save_backup")
    /\ UNCHANGED <<primary, backup, temp>>
    /\ UNCHANGED <<clock, cmd, found, faults, fd>>

\* Lines 112-119: validate, then refresh metadata.last_updated in place.
save_validate(p) ==
    /\ pc[p] = "save_model"
    /\ IF validate_model(mem[p]) # "True"
         THEN save_return(p, FALSE)
         ELSE /\ mem' = [mem EXCEPT ![p].metadata =
                                 set_field(@, "last_updated", clock)]
              /\ goto(p, "save_backup")
    /\ UNCHANGED <<primary, backup, temp>>
    /\ UNCHANGED <<clock, cmd, found, faults, fd>>

\* Faulty variant of save_backup_open: an existing backup is kept.
save_backup_open_once(p) ==
    /\ pc[p] = "save_backup"
    /\ IF path_exists(primary) /\ ~path_exists(backup)
         THEN backup' = Truncated /\ goto(p, "save_backup_copy")
         ELSE UNCHANGED backup /\ goto(p, "save_temp")
    /\ UNCHANGED <<primary, temp, mem>>
    /\ UNCHANGED <<clock, cmd, found, faults, fd>>

\* Lines 122-124, shutil.copy opens the destination for writing.
save_backup_open(p) ==
    /\ pc[p] = "save_backup"
    /\ IF path_exists(primary)
         THEN backup' = Truncated /\ goto(p, "save_backup_copy")
         ELSE UNCHANGED backup /\ goto(p, "save_temp")
    /\ UNCHANGED <<primary, temp, mem>>
    /\ UNCHANGED <<clock, cmd, found, faults, fd>>

\* Line 124, shutil.copy has written the whole content.
save_backup_copy(p) ==
    /\ pc[p] = "save_backup_copy"
    /\ backup' = primary
    /\ goto(p, "save_temp")
    /\ UNCHANGED <<primary, temp, mem>>
    /\ UNCHANGED <<clock, cmd, found, faults, fd>>

\* Faulty variant of save_temp_open: DATA_FILE itself is opened for writing.
save_temp_open_inplace(p) ==
    /\ pc[p] = "save_temp"
    /\ primary' = Truncated
    /\ fd' = [fd EXCEPT ![p] = "primary"]
    /\ goto(p, "save_temp_write")
    /\ UNCHANGED <<temp, backup, mem>>
    /\ UNCHANGED <<clock, cmd, found, faults>>

\* Line 128: open(temp, 'w') creates or truncates the temporary file; the
\* handle stays with the file when another process renames it.
save_temp_open(p) ==
    /\ pc[p] = "save_temp"
    /\ temp' = Truncated
    /\ fd' = [fd EXCEPT ![p] = "temp"]
    /\ goto(p, "save_temp_write")
    /\ UNCHANGED <<primary, backup, mem>>
    /\ UNCHANGED <<clock, cmd, found, faults>>

\* What a file holds after `text` was written from its start: the text, or
\* the text followed by the rest of a longer text that another process wrote
\* there in between (a document with more concepts is the longer text).
written_over(file, text) ==
    IF json_parses(file) /\ "concepts" \in DOMAIN json_load(file)
          /\ Len(json_load(file).concepts) > Len(json_load(text).concepts)
      THEN Mixed
    ELSE IF file = Mixed THEN Mixed
    ELSE text

\* The concepts of both documents: those of `file`, then those of `model`
\* that `file` lacks.
merged(file, model) ==
    IF ~HoldsValid(file) THEN model
    ELSE LET theirs == json_load(file).concepts
             mine == SelectSeq(model.concepts,
                               LAMBDA c : c.key \notin {theirs[i].key :
                                                            i \in 1..Len(theirs)})
         IN  [model EXCEPT !.concepts = theirs \o mine]

\* Variant of save_temp_write that student.py does not have: the primary
\* is read again and its concepts are merged into the document written.
save_temp_write_merging(p) ==
    /\ pc[p] = "save_temp_write"
    /\ CASE fd[p] = "temp" ->
              /\ temp' = written_over(temp, json_dump(merged(primary, mem[p])))
              /\ UNCHANGED primary
         [] fd[p] = "primary" ->
              /\ primary' = written_over(primary, json_dump(mem[p]))
              /\ UNCHANGED temp
         [] OTHER -> UNCHANGED <<primary, temp>>
    /\ fd' = [fd EXCEPT ![p] = "closed"]
    /\ goto(p, "save_rename")
    /\ UNCHANGED <<backup, mem>>
    /\ UNCHANGED <<clock, cmd, found, faults>>

\* Line 129: json.dump has written the whole document; the file is closed.
\* The text goes to the file the handle is on: the temporary file, or the
\* primary if another process has renamed the temporary file meanwhile, or
\* a file that no path names any more.
save_temp_write(p) ==
    /\ pc[p] = "save_temp_write"
    /\ CASE fd[p] = "temp" ->
              temp' = written_over(temp, json_dump(mem[p])) /\ UNCHANGED primary
         [] fd[p] = "primary" ->
              primary' = written_over(primary, json_dump(mem[p])) /\ UNCHANGED temp
         [] OTHER -> UNCHANGED <<primary, temp>>
    /\ fd' = [fd EXCEPT ![p] = "closed"]
    /\ goto(p, "save_rename")
    /\ UNCHANGED <<backup, mem>>
    /\ UNCHANGED <<clock, cmd, found, faults>>

\* Line 132: temp.replace(DATA_FILE), atomic; FileNotFoundError without a temp file.
save_rename(p) ==
    /\ pc[p] = "save_rename"
    /\ IF path_exists(temp)
         THEN /\ primary' = temp
              /\ temp' = Absent
              /\ fd' = [q \in Procs |->
                           CASE fd[q] = "temp" -> "primary"
                             [] fd[q] = "primary" -> "unlinked"
                             [] OTHER -> fd[q]]
              /\ pc' = [pc EXCEPT ![p] = "save_post"]
              /\ hist' = [q \in Procs |-> [hist[q] EXCEPT !.renamedLast = (q = p)]]
              /\ UNCHANGED mem
         ELSE UNCHANGED <<primary, temp, fd>> /\ save_return(p, FALSE)
    /\ UNCHANGED backup
    /\ UNCHANGED <<clock, cmd, found, faults>>

\* Lines 135-139: the first backup is made from the primary just written.
save_post_open(p) ==
    /\ pc[p] = "save_post"
    /\ IF ~path_exists(backup)
         THEN backup' = Truncated /\ goto(p, "save_post_copy") /\ UNCHANGED mem
         ELSE UNCHANGED backup /\ save_return(p, TRUE)
    /\ UNCHANGED <<primary, temp>>
    /\ UNCHANGED <<clock, cmd, found, faults, fd>>

\* Line 137 completed, line 139.
save_post_copy(p) ==
    /\ pc[p] = "save_post_copy"
    /\ backup' = primary
    /\ save_return(p, TRUE)
    /\ UNCHANGED <<primary, temp>>
    /\ UNCHANGED <<clock, cmd, found, faults, fd>>

\* The steps of save_model that write: each may raise an I/O error instead.
IOSteps == {"save_backup", "save_backup_copy", "save_temp", "save_temp_write",
            "save_rename", "save_post", "save_post_copy"}

\* Lines 141-143: an exception raised by a file operation; what the operation
\* had written so far stays on disk.
save_io_error(p) ==
    /\ pc[p] \in IOSteps
    /\ pc[p] = "save_backup" => path_exists(primary)
    /\ pc[p] = "save_post" => ~path_exists(backup)
    /\ save_return(p, FALSE)
    /\ fd' = [fd EXCEPT ![p] = "closed"]
    /\ UNCHANGED <<primary, backup, temp>>
    /\ UNCHANGED <<clock, cmd, found, faults>>

\* save_model when no file operation fails.
save_steps(p) ==
    \/ save_validate(p)
    \/ save_backup_open(p)
    \/ save_backup_copy(p)
    \/ save_temp_open(p)
    \/ save_temp_write(p)
    \/ save_rename(p)
    \/ save_post_open(p)
    \/ save_post_copy(p)

save_model(p) ==
    \/ save_steps(p)
    \/ save_io_error(p)

\* ------------------------------------------------------------- load_model

load_return(p, model) ==
    /\ mem' = [mem EXCEPT ![p] = model]
    /\ pc' = [pc EXCEPT ![p] = "load_done"]
    /\ hist' = [hist EXCEPT ![p].loaded = model]

\* Faulty variant of load_primary: a parsed value on which validate_model
\* raises is returned as it is.
load_primary_unguarded(p) ==
    /\ pc[p] = "load_model"
    /\ IF ~path_exists(primary)
         THEN load_return(p, get_default_model(clock))
         ELSE IF ~json_parses(primary)
         THEN UNCHANGED mem /\ goto(p, "load_except")
         ELSE LET model == json_load(primary)
                  valid == validate_model(model)
              IN  CASE valid = "True" -> load_return(p, model)
                    [] valid = "False" -> UNCHANGED mem /\ goto(p, "load_invalid")
                    [] valid = "TypeError" -> load_return(p, model)
    /\ UNCHANGED <<primary, backup, temp>>
    /\ UNCHANGED <<clock, cmd, found, faults, fd>>

\* Faulty variant of load_primary: a valid primary is saved again.
load_primary_rewrite(p) ==
    /\ pc[p] = "load_model"
    /\ IF ~path_exists(primary)
         THEN load_return(p, get_default_model(clock))
         ELSE IF ~json_parses(primary)
         THEN UNCHANGED mem /\ goto(p, "load_except")
         ELSE LET model == json_load(primary)
                  valid == validate_model(model)
              IN  CASE valid = "True" -> call_save(p, model, TRUE)
                    [] valid = "False" -> UNCHANGED mem /\ goto(p, "load_invalid")
                    [] valid = "TypeError" -> load_return(p, get_default_model(clock))
    /\ UNCHANGED <<primary, backup, temp>>
    /\ UNCHANGED <<clock, cmd, found, faults, fd>>

\* Faulty variant of load_primary: the default model of a missing file is saved.
load_primary_persist(p) ==
    /\ pc[p] = "load_model"
    /\ IF ~path_exists(primary)
         THEN call_save(p, get_default_model(clock), TRUE)
         ELSE IF ~json_parses(primary)
         THEN UNCHANGED mem /\ goto(p, "load_except")
         ELSE LET model == json_load(primary)
                  valid == validate_model(model)
              IN  CASE valid = "True" -> load_return(p, model)
                    [] valid = "False" -> UNCHANGED mem /\ goto(p, "load_invalid")
                    [] valid = "TypeError" -> load_return(p, get_default_model(clock))
    /\ UNCHANGED <<primary, backup, temp>>
    /\ UNCHANGED <<clock, cmd, found, faults, fd>>

\* Lines 52-62, 79 and 102-104: read and validate the primary file.
load_primary(p) ==
    /\ pc[p] = "load_model"
    /\ IF ~path_exists(primary)
         THEN load_return(p, get_default_model(clock))
         ELSE IF ~json_parses(primary)
         THEN UNCHANGED mem /\ goto(p, "load_except")
         ELSE LET model == json_load(primary)
                  valid == validate_model(model)
              IN  CASE valid = "True" -> load_return(p, model)
                    [] valid = "False" -> UNCHANGED mem /\ goto(p, "load_invalid")
                    [] valid = "TypeError" -> load_return(p, get_default_model(clock))
    /\ UNCHANGED <<primary, backup, temp>>
    /\ UNCHANGED <<clock, cmd, found, faults, fd>>

\* Faulty variant of load_invalid: the backup is restored without validation.
load_invalid_unchecked(p) ==
    /\ pc[p] = "load_invalid"
    /\ IF ~path_exists(backup)
         THEN load_return(p, get_default_model(clock))
         ELSE IF ~json_parses(backup)
         THEN UNCHANGED mem /\ goto(p, "load_except")
         ELSE call_save(p, json_load(backup), TRUE)
    /\ UNCHANGED <<primary, backup, temp>>
    /\ UNCHANGED <<clock, cmd, found, faults, fd>>

\* Lines 63-77: the primary parsed but is invalid; a backup that does not
\* parse raises JSONDecodeError into the handler of line 81, a TypeError of
\* validate_model is caught at line 102.
load_invalid(p) ==
    /\ pc[p] = "load_invalid"
    /\ IF ~path_exists(backup)
         THEN load_return(p, get_default_model(clock))
         ELSE IF ~json_parses(backup)
         THEN UNCHANGED mem /\ goto(p, "load_except")
         ELSE LET model == json_load(backup)
              IN  IF validate_model(model) = "True"
                    THEN call_save(p, model, TRUE)
                    ELSE load_return(p, get_default_model(clock))
    /\ UNCHANGED <<primary, backup, temp>>
    /\ UNCHANGED <<clock, cmd, found, faults, fd>>

\* Lines 81-100: the JSONDecodeError handler; every exception of the restore
\* is swallowed (lines 96-97).
load_except(p) ==
    /\ pc[p] = "load_except"
    /\ IF path_exists(backup) /\ json_parses(backup)
          /\ validate_model(json_load(backup)) = "True"
         THEN call_save(p, json_load(backup), TRUE)
         ELSE load_return(p, get_default_model(clock))
    /\ UNCHANGED <<primary, backup, temp>>
    /\ UNCHANGED <<clock, cmd, found, faults, fd>>

load_model(p) ==
    \/ load_primary(p)
    \/ load_invalid(p)
    \/ load_except(p)

\* ------------------------------------------------------------ find_concept

\* Concept names are strings: sequences of characters.
Chars == {"a", "A", "b", "B"}

\* Faulty variant of lower_char: the case is kept.
lower_char_identity(c) == c

\* str.lower(), character by character.
lower_char(c) ==
    CASE c = "A" -> "a"
      [] c = "B" -> "b"
      [] OTHER -> c

lower(s) == [i \in 1..Len(s) |-> lower_char(s[i])]

\* Python's None where a key may be returned: no sequence of characters.
None == <<"None">>

\* `if key:` / `if not key:` on an Optional[str]: None and "" are falsy.
truthy(key) == key # None /\ key # <<>>

\* model["concepts"] is a dict: the sequence of its items in insertion order.
RECURSIVE find_from(_, _, _)
find_from(concepts, concept_lower, i) ==
    IF i > Len(concepts) THEN None
    ELSE IF lower(concepts[i].key) = concept_lower THEN concepts[i].key
    ELSE find_from(concepts, concept_lower, i + 1)

\* Faulty variant of find_concept: the stored key is compared as it is.
RECURSIVE find_exact_from(_, _, _)
find_exact_from(concepts, concept_lower, i) ==
    IF i > Len(concepts) THEN None
    ELSE IF concepts[i].key = concept_lower THEN concepts[i].key
    ELSE find_exact_from(concepts, concept_lower, i + 1)

find_concept_exact(model, concept_name) ==
    find_exact_from(model.concepts, lower(concept_name), 1)

\* Faulty variant of find_concept: the name is returned as it was typed.
find_concept_typed(model, concept_name) ==
    IF find_from(model.concepts, lower(concept_name), 1) = None
      THEN None
      ELSE concept_name

\* Lines 169-178: the first key, in insertion order, that matches.
find_concept(model, concept_name) ==
    find_from(model.concepts, lower(concept_name), 1)

dict_keys(d) == {d[i].key : i \in 1..Len(d)}
dict_index(d, key) == CHOOSE i \in 1..Len(d) : d[i].key = key
dict_get(d, key) == d[dict_index(d, key)].value
\* d[key] = value: an existing key keeps its position.
dict_set(d, key, value) ==
    IF key \in dict_keys(d)
      THEN [d EXCEPT ![dict_index(d, key)].value = value]
      ELSE Append(d, [key |-> key, value |-> value])

\* ---------------------------------------------------------------- commands

MinMastery == 0
MaxMastery == 100
Confidences == {"low", "medium", "high"}

\* Faulty variant of mastery_in_range: every number passes.
mastery_in_range_any(mastery) == TRUE

\* Faulty variant of mastery_in_range: negative values pass.
mastery_in_range_upper(mastery) == mastery <= MaxMastery

\* Lines 378, 433 and 624: 0 <= mastery <= 100
mastery_in_range(mastery) == MinMastery <= mastery /\ mastery <= MaxMastery

\* The command returns without (another) save.
cmd_return(p) ==
    /\ pc' = [pc EXCEPT ![p] = "cmd_done"]
    /\ UNCHANGED <<mem, hist>>

\* A command starts: every handler but init begins with load_model().  The
\* arguments are read where the handler first uses them.
start_command(p, name) ==
    /\ \A q \in Procs : pc[q] = "idle"
    /\ cmd' = [cmd EXCEPT ![p] = [name |-> name]]
    /\ pc' = [pc EXCEPT ![p] = "load_model"]
    /\ hist' = [hist EXCEPT ![p] = [NoHist EXCEPT !.startAt = Files, !.loads = 1]]
    /\ UNCHANGED <<primary, backup, temp, clock, mem, found, faults, fd>>

\* Lines 145-167; `overwrite` is the answer to the prompt of line 150.
initialize_model(p, profile, overwrite) ==
    /\ \A q \in Procs : pc[q] = "idle"
    /\ cmd' = [cmd EXCEPT ![p] = [name |-> "init", profile |-> profile]]
    /\ IF path_exists(primary) /\ ~overwrite
         THEN /\ pc' = [pc EXCEPT ![p] = "load_model"]
              /\ hist' = [hist EXCEPT ![p] = [NoHist EXCEPT !.startAt = Files, !.loads = 1]]
              /\ UNCHANGED mem
         ELSE LET model == [get_default_model(clock) EXCEPT
                                !.metadata.student_profile = profile]
              IN  /\ mem' = [mem EXCEPT ![p] = model]
                  /\ pc' = [pc EXCEPT ![p] = "save_model"]
                  /\ hist' = [hist EXCEPT ![p] = [NoHist EXCEPT !.startAt = Files,
                                                                !.saveAt = Files,
                                                                !.saveArg = model,
                                                                !.owns = 1]]
    /\ UNCHANGED <<primary, backup, temp, clock, found, faults, fd>>

\* Lines 388-401: the new concept record.
new_concept(mastery, confidence, related, now) ==
    [mastery |-> mastery,
     confidence |-> confidence,
     first_encountered |-> now,
     last_reviewed |-> now,
     struggles |-> <<>>,
     breakthroughs |-> <<>>,
     related_concepts |-> related]

\* The names, masteries and options the commands are run with.
CmdNames == {<<"a">>, <<"A">>, <<"b">>}
MasteryInputs == {-1, 0, 100, 101}
RelatedInputs == {<<>>}

\* argparse, lines 944-951: mastery is an int, confidence one of the choices.
AddArgs ==
    [name : {"add"}, concept_name : CmdNames, mastery : MasteryInputs,
     confidence : {"low"}, related : RelatedInputs]

\* argparse, lines 954-961: an option that was not given (None) is the empty
\* sequence, a given one a sequence of one value.
UpdateArgs ==
    [name : {"update"}, concept_name : CmdNames,
     mastery : {<<>>} \cup {<<m>> : m \in MasteryInputs},
     confidence : {<<>>, <<"high">>}]

\* Lines 367-415, after load_model() has returned.  args.related is modelled
\* by the list it splits into (empty: no --related).  Args is the set of
\* argument values the command may be run with.
cmd_add_of(p, Args) ==
    /\ pc[p] = "load_done"
    /\ cmd[p].name = "add"
    /\ \E args \in Args :
        /\ cmd' = [cmd EXCEPT ![p] = args]
        /\ LET model == mem[p]
           IN  IF truthy(find_concept(model, args.concept_name))
                 THEN cmd_return(p)
               ELSE IF ~mastery_in_range(args.mastery)
                 THEN cmd_return(p)
               ELSE IF args.confidence \notin Confidences
                 THEN cmd_return(p)
               ELSE call_save(p,
                        [model EXCEPT !.concepts =
                            dict_set(@, args.concept_name,
                                     new_concept(args.mastery, args.confidence,
                                                 args.related, clock))],
                        FALSE)
    /\ UNCHANGED <<primary, backup, temp, clock, found, faults, fd>>

cmd_add(p) == cmd_add_of(p, AddArgs)

\* Lines 418-463, after load_model() has returned.  The mastery is written
\* into the concept before the confidence is checked; the model is saved
\* only if every given option passed.
cmd_update_of(p, Args) ==
    /\ pc[p] = "load_done"
    /\ cmd[p].name = "update"
    /\ \E args \in Args :
        /\ cmd' = [cmd EXCEPT ![p] = args]
        /\ LET model == mem[p]
               concept_key == find_concept(model, args.concept_name)
           IN  IF ~truthy(concept_key)
                 THEN cmd_return(p)
               ELSE IF args.mastery # <<>>
                       /\ ~mastery_in_range(args.mastery[1])
                 THEN cmd_return(p)
               ELSE LET concept == dict_get(model.concepts, concept_key)
                        c1 == IF args.mastery # <<>>
                                THEN [concept EXCEPT !.mastery = args.mastery[1]]
                                ELSE concept
                        m1 == [model EXCEPT !.concepts = dict_set(@, concept_key, c1)]
                    IN  IF args.confidence # <<>>
                           /\ args.confidence[1] \notin Confidences
                          THEN /\ mem' = [mem EXCEPT ![p] = m1]
                               /\ pc' = [pc EXCEPT ![p] = "cmd_done"]
                               /\ UNCHANGED hist
                        ELSE LET c2 == IF args.confidence # <<>>
                                         THEN [c1 EXCEPT !.confidence =
                                                            args.confidence[1]]
                                         ELSE c1
                                 c3 == [c2 EXCEPT !.last_reviewed = clock]
                                 m3 == [model EXCEPT !.concepts =
                                                         dict_set(@, concept_key, c3)]
                             IN  IF args.mastery # <<>> \/ args.confidence # <<>>
                                   THEN call_save(p, m3, FALSE)
                                   ELSE /\ mem' = [mem EXCEPT ![p] = m3]
                                        /\ pc' = [pc EXCEPT ![p] = "cmd_done"]
                                        /\ UNCHANGED hist
    /\ UNCHANGED <<primary, backup, temp, clock, found, faults, fd>>

cmd_update(p) == cmd_update_of(p, UpdateArgs)

\* ------------------------------------------- struggles and breakthroughs

\* A free text is modelled by the segments that its colons separate:
\* "x" is <<"x">> and "x:y" is <<"x", "y">>.
Descriptions == {<<"s">>, <<"t">>}

\* argparse, lines 964-966: a concept name and a description.
StruggleArgs ==
    [name : {"struggle"}, concept_name : {<<"A">>, <<"b">>},
     description : Descriptions]

\* argparse, lines 969-971
BreakthroughArgs ==
    [name : {"breakthrough"}, concept_name : {<<"a">>},
     description : {<<"s">>}]

\* `description in struggles`
in_list(x, list) == \E i \in 1..Len(list) : list[i] = x

\* Lines 466-492 (field = "struggles") and 495-521 (field = "breakthroughs"),
\* after load_model() has returned.
cmd_note(p, args, field) ==
    LET model == mem[p]
        concept_key == find_concept(model, args.concept_name)
    IN  IF ~truthy(concept_key)
          THEN cmd_return(p)
        ELSE LET concept == dict_get(model.concepts, concept_key)
             IN  IF in_list(args.description, concept[field])
                   THEN cmd_return(p)
                 ELSE call_save(p,
                         [model EXCEPT !.concepts =
                             dict_set(@, concept_key,
                                 [concept EXCEPT
                                     ![field] = Append(@, args.description),
                                     !.last_reviewed = clock])],
                         FALSE)

\* Lines 466-492
cmd_struggle(p) ==
    /\ pc[p] = "load_done"
    /\ cmd[p].name = "struggle"
    /\ \E args \in StruggleArgs :
        /\ cmd' = [cmd EXCEPT ![p] = args]
        /\ cmd_note(p, args, "struggles")
    /\ UNCHANGED <<primary, backup, temp, clock, found, faults, fd>>

\* Lines 495-521
cmd_breakthrough(p) ==
    /\ pc[p] = "load_done"
    /\ cmd[p].name = "breakthrough"
    /\ \E args \in BreakthroughArgs :
        /\ cmd' = [cmd EXCEPT ![p] = args]
        /\ cmd_note(p, args, "breakthroughs")
    /\ UNCHANGED <<primary, backup, temp, clock, found, faults, fd>>

\* ---------------------------------------------------------- link and unlink

\* argparse, lines 974-976 and 979-981: two concept names.
\* A name may be the empty string.
LinkArgs(name) ==
    [name : {name}, concept_name : {<<"a">>, <<"A">>, <<>>},
     related_concept : {<<"b">>, <<"B">>, <<>>}]

\* any(r.lower() == name.lower() for r in related_list)
RECURSIVE first_match(_, _, _)
first_match(related_list, name_lower, i) ==
    IF i > Len(related_list) THEN None
    ELSE IF lower(related_list[i]) = name_lower THEN related_list[i]
    ELSE first_match(related_list, name_lower, i + 1)

\* list.remove(x): the first item equal to x is taken out.
list_remove(list, x) ==
    LET i == CHOOSE k \in 1..Len(list) :
                 list[k] = x /\ \A m \in 1..(k - 1) : list[m] # x
    IN  SubSeq(list, 1, i - 1) \o SubSeq(list, i + 1, Len(list))

\* Lines 524-561, after load_model() has returned: the link is appended to
\* related_concepts; no other field of the concept is assigned.
cmd_link(p) ==
    /\ pc[p] = "load_done"
    /\ cmd[p].name = "link"
    /\ \E args \in LinkArgs("link") :
        /\ cmd' = [cmd EXCEPT ![p] = args]
        /\ LET model == mem[p]
               concept_key == find_concept(model, args.concept_name)
               related_key == find_concept(model, args.related_concept)
           IN  IF ~truthy(concept_key)
                 THEN cmd_return(p)
               ELSE LET link_name == IF ~truthy(related_key)
                                       THEN args.related_concept
                                       ELSE related_key
                        concept == dict_get(model.concepts, concept_key)
                    IN  IF first_match(concept.related_concepts,
                                       lower(link_name), 1) # None
                          THEN cmd_return(p)
                        ELSE call_save(p,
                                [model EXCEPT !.concepts =
                                    dict_set(@, concept_key,
                                        [concept EXCEPT
                                            !.related_concepts = Append(@, link_name)])],
                                FALSE)
    /\ UNCHANGED <<primary, backup, temp, clock, found, faults, fd>>

\* Lines 564-594, after load_model() has returned: the first link that
\* matches case-insensitively is removed; no other field is assigned.
cmd_unlink(p) ==
    /\ pc[p] = "load_done"
    /\ cmd[p].name = "unlink"
    /\ \E args \in LinkArgs("unlink") :
        /\ cmd' = [cmd EXCEPT ![p] = args]
        /\ LET model == mem[p]
               concept_key == find_concept(model, args.concept_name)
           IN  IF ~truthy(concept_key)
                 THEN cmd_return(p)
               ELSE LET concept == dict_get(model.concepts, concept_key)
                        removed == first_match(concept.related_concepts,
                                               lower(args.related_concept), 1)
                    IN  IF ~truthy(removed)
                          THEN cmd_return(p)
                        ELSE call_save(p,
                                [model EXCEPT !.concepts =
                                    dict_set(@, concept_key,
                                        [concept EXCEPT
                                            !.related_concepts =
                                                list_remove(@, removed)])],
                                FALSE)
    /\ UNCHANGED <<primary, backup, temp, clock, found, faults, fd>>

\* ----------------------------------------------------------------- show

\* argparse, lines 934-935: a concept name.
ShowArgs == [name : {"show"}, concept_name : {<<"a">>, <<>>}]

\* Lines 302-321: one output line per related name, in order; `tracked` is
\* FALSE where the line ends in "(not tracked)".
related_lines(model, related) ==
    [i \in 1..Len(related) |->
        LET rel_name == related[i]
            rel_key == find_concept(model, rel_name)
        IN  [rel_name |-> rel_name,
             tracked |-> truthy(rel_key) /\ rel_key \in dict_keys(model.concepts)]]

\* Lines 261-321, after load_model() has returned; what is printed about
\* the related concepts is kept with the arguments.  Nothing is saved.
cmd_show(p) ==
    /\ pc[p] = "load_done"
    /\ cmd[p].name = "show"
    /\ \E args \in ShowArgs :
        LET model == mem[p]
            concept_key == find_concept(model, args.concept_name)
        IN  /\ cmd' = [cmd EXCEPT ![p] =
                          IF ~truthy(concept_key)
                            THEN [name |-> "show",
                                  concept_name |-> args.concept_name,
                                  shown |-> FALSE, lines |-> <<>>]
                            ELSE [name |-> "show",
                                  concept_name |-> args.concept_name,
                                  shown |-> TRUE,
                                  lines |-> related_lines(model,
                                      dict_get(model.concepts,
                                               concept_key).related_concepts)]]
            /\ cmd_return(p)
    /\ UNCHANGED <<primary, backup, temp, clock, found, faults, fd>>

\* ------------------------------------------------------------ session-end

\* A batch item is a string; it is modelled by the segments that its colons
\* separate, which is what str.split(':') returns.  The first segment is the
\* concept name (a sequence of characters), the others are texts.
ValueError == [raised |-> "ValueError"]

\* int(mastery_str), line 621: the number, or ValueError.
int(text) ==
    CASE text = "0" -> [value |-> 0]
      [] text = "80" -> [value |-> 80]
      [] text = "150" -> [value |-> 150]
      [] OTHER -> ValueError

\* errors.append(...)
session_error(st, item) == [st EXCEPT !.errors = Append(@, item)]

\* changes.append(...), with the model as the item left it
session_change(st, item, model) ==
    [st EXCEPT !.changes = Append(@, item), !.model = model]

\* Lines 614-652: one --update "Concept:mastery:confidence".
session_update(st, update_str, now) ==
    LET parts == update_str
    IN  IF Len(parts) # 3 THEN session_error(st, update_str)
        ELSE LET concept_name == parts[1]
                 mastery == int(parts[2])
                 confidence == parts[3]
             IN  IF mastery = ValueError THEN session_error(st, update_str)
                 ELSE IF ~mastery_in_range(mastery.value)
                   THEN session_error(st, update_str)
                 ELSE IF confidence \notin Confidences
                   THEN session_error(st, update_str)
                 ELSE LET concept_key == find_concept(st.model, concept_name)
                      IN  IF ~truthy(concept_key)
                            THEN session_error(st, update_str)
                          ELSE LET concept == dict_get(st.model.concepts, concept_key)
                               IN  session_change(st, update_str,
                                     [st.model EXCEPT !.concepts =
                                        dict_set(@, concept_key,
                                           [concept EXCEPT
                                              !.mastery = mastery.value,
                                              !.confidence = confidence,
                                              !.last_reviewed = now])])

\* Lines 657-686 (field = "struggles") and 691-720 (field = "breakthroughs"):
\* one "Concept:description"; split(':', 1) leaves the colons of the
\* description in place.  A text that is already logged is appended to
\* changes (lines 676, 710) and leaves the model as it is.
session_note(st, note_str, field, now) ==
    IF Len(note_str) < 2 THEN session_error(st, note_str)
    ELSE LET concept_name == note_str[1]
             description == Tail(note_str)
             concept_key == find_concept(st.model, concept_name)
         IN  IF ~truthy(concept_key) THEN session_error(st, note_str)
             ELSE LET concept == dict_get(st.model.concepts, concept_key)
                  IN  IF in_list(description, concept[field])
                        THEN session_change(st, note_str, st.model)
                      ELSE session_change(st, note_str,
                             [st.model EXCEPT !.concepts =
                                dict_set(@, concept_key,
                                   [concept EXCEPT
                                      ![field] = Append(@, description),
                                      !.last_reviewed = now])])

\* The three loops of lines 613, 656 and 690.
RECURSIVE session_updates(_, _, _, _)
session_updates(st, items, i, now) ==
    IF i > Len(items) THEN st
    ELSE session_updates(session_update(st, items[i], now), items, i + 1, now)

RECURSIVE session_notes(_, _, _, _, _)
session_notes(st, items, i, field, now) ==
    IF i > Len(items) THEN st
    ELSE session_notes(session_note(st, items[i], field, now), items, i + 1,
                       field, now)

\* Lines 606-720: the model, changes and errors after the three loops.
session_apply(model, args, now) ==
    LET st0 == [model |-> model, changes |-> <<>>, errors |-> <<>>]
        st1 == session_updates(st0, args.update, 1, now)
        st2 == session_notes(st1, args.struggle, 1, "struggles", now)
    IN  session_notes(st2, args.breakthrough, 1, "breakthroughs", now)

\* The batch items the command is run with.
MaxItems == 2
UpdateItems ==
    {<<<<"a">>, "80", "high">>,      \* valid
     <<<<"a">>, "150", "medium">>,   \* mastery out of range
     <<<<"a">>, "80", "sure">>,      \* confidence not in the enum
     <<<<"a">>, "x", "high">>,       \* mastery not a number
     <<<<"a">>, "80">>,              \* bad syntax
     <<<<"B">>, "0", "low">>}        \* unknown concept
StruggleItems ==
    {<<<<"A">>, "s">>,               \* valid
     <<<<"a">>>>,                    \* bad syntax
     <<<<"b">>, "s">>}               \* unknown concept
BreakthroughItems == {<<<<"a">>, "s">>}

SeqsUpTo(S, n) == UNION {[1..k -> S] : k \in 0..n}

\* argparse, lines 984-1002: three repeatable options, at most MaxItems
\* items in all.
SessionArgs ==
    {args \in [name : {"session-end"},
               update : SeqsUpTo(UpdateItems, MaxItems),
               struggle : SeqsUpTo(StruggleItems, MaxItems),
               breakthrough : SeqsUpTo(BreakthroughItems, 1)] :
        Len(args.update) + Len(args.struggle) + Len(args.breakthrough) <= MaxItems}

\* Lines 597-743, after load_model() has returned.  The lists changes and
\* errors are kept with the arguments.
cmd_session_end_of(p, Args) ==
    /\ pc[p] = "load_done"
    /\ cmd[p].name = "session-end"
    /\ \E args \in Args :
        LET st == session_apply(mem[p], args, clock)
        IN  /\ cmd' = [cmd EXCEPT ![p] =
                          [name |-> "session-end",
                           update |-> args.update,
                           struggle |-> args.struggle,
                           breakthrough |-> args.breakthrough,
                           changes |-> st.changes,
                           errors |-> st.errors]]
            /\ IF st.changes # <<>>
                 THEN call_save(p, st.model, FALSE)
                 ELSE /\ mem' = [mem EXCEPT ![p] = st.model]
                      /\ pc' = [pc EXCEPT ![p] = "cmd_done"]
                      /\ UNCHANGED hist
    /\ UNCHANGED <<primary, backup, temp, clock, found, faults, fd>>

cmd_session_end(p) == cmd_session_end_of(p, SessionArgs)

\* ---------------------------------------------------------- misconceptions

\* Lines 761-768; a date that is None is the empty sequence, a date that is
\* set a sequence of one time.
new_misconception(concept_key, belief, correction, now) ==
    [concept |-> concept_key,
     belief |-> belief,
     correction |-> correction,
     date_identified |-> now,
     resolved |-> FALSE,
     date_resolved |-> <<>>]

Beliefs == {<<"x">>, <<"y">>}

\* argparse, lines 1018-1026
MiscAddArgs ==
    [name : {"misconception add"}, concept_name : {<<"a">>, <<"B">>},
     belief : Beliefs, correction : {"c"}]

\* argparse, lines 1029-1035: index is any int.
MaxIndex == 2
MiscResolveArgs ==
    [name : {"misconception resolve"}, concept_name : {<<"A">>, <<"b">>},
     index : -1..MaxIndex]

\* Lines 749-786, after load_model() has returned.
cmd_misconception_add_of(p, Args) ==
    /\ pc[p] = "load_done"
    /\ cmd[p].name = "misconception add"
    /\ \E args \in Args :
        /\ cmd' = [cmd EXCEPT ![p] = args]
        /\ LET model == mem[p]
               concept_key == find_concept(model, args.concept_name)
               misconceptions == model.misconceptions
           IN  IF ~truthy(concept_key)
                 THEN cmd_return(p)
               ELSE IF \E i \in 1..Len(misconceptions) :
                          /\ lower(misconceptions[i].concept) = lower(concept_key)
                          /\ lower(misconceptions[i].belief) = lower(args.belief)
                 THEN cmd_return(p)
               ELSE call_save(p,
                       [model EXCEPT !.misconceptions =
                           Append(@, new_misconception(concept_key, args.belief,
                                                       args.correction, clock))],
                       FALSE)
    /\ UNCHANGED <<primary, backup, temp, clock, found, faults, fd>>

cmd_misconception_add(p) == cmd_misconception_add_of(p, MiscAddArgs)

\* Faulty variant of concept_misconceptions: resolved entries are kept.
concept_misconceptions_all(misconceptions, concept_key) ==
    SelectSeq([i \in 1..Len(misconceptions) |-> i],
              LAMBDA i : lower(misconceptions[i].concept) = lower(concept_key))

\* Lines 800-803: the positions, in order, of the unresolved misconceptions
\* of the concept.
concept_misconceptions(misconceptions, concept_key) ==
    SelectSeq([i \in 1..Len(misconceptions) |-> i],
              LAMBDA i : /\ lower(misconceptions[i].concept) = lower(concept_key)
                         /\ ~misconceptions[i].resolved)

\* Lines 789-826, after load_model() has returned.  A negative index counts
\* from the end of the list (line 816); one before its start raises
\* IndexError, which ends the command.
cmd_misconception_resolve_of(p, Args) ==
    /\ pc[p] = "load_done"
    /\ cmd[p].name = "misconception resolve"
    /\ \E args \in Args :
        /\ cmd' = [cmd EXCEPT ![p] = args]
        /\ LET model == mem[p]
               concept_key == find_concept(model, args.concept_name)
           IN  IF ~truthy(concept_key)
                 THEN cmd_return(p)
               ELSE LET found_list == concept_misconceptions(model.misconceptions,
                                                             concept_key)
                        n == Len(found_list)
                    IN  IF n = 0 THEN cmd_return(p)
                        ELSE IF args.index >= n THEN cmd_return(p)
                        ELSE IF args.index < -n THEN cmd_return(p)
                        ELSE LET actual_index ==
                                    IF args.index >= 0
                                      THEN found_list[args.index + 1]
                                      ELSE found_list[n + args.index + 1]
                             IN  call_save(p,
                                    [model EXCEPT
                                        !.misconceptions[actual_index].resolved = TRUE,
                                        !.misconceptions[actual_index].date_resolved =
                                            <<clock>>],
                                    FALSE)
    /\ UNCHANGED <<primary, backup, temp, clock, found, faults, fd>>

cmd_misconception_resolve(p) ==
    cmd_misconception_resolve_of(p, MiscResolveArgs)

\* ------------------------------------------------- a caller of the store

drop_key(d, k) == [x \in DOMAIN d \ {k} |-> d[x]]

\* The concepts a caller may leave in the model before saving it.
StoreConcepts ==
    {<<>>, <<[key |-> <<"a">>, value |-> new_concept(50, "low", <<>>, 0)]>>}

\* What a caller may hand to save_model after loading `model`: the model as
\* loaded, the model with other concepts, or a value that fails validate_model.
CallerDocs(model) ==
    {model}
    \cup {[model EXCEPT !.concepts = c] : c \in StoreConcepts}
    \cup {drop_key(model, k) : k \in required_keys}
    \cup {[model EXCEPT !.metadata = drop_key(@, k)] : k \in required_metadata}
    \cup {JsonNull}

\* model = load_model()
caller_load(p) == start_command(p, "caller")

\* save_model(model), once per invocation
caller_save(p) ==
    /\ pc[p] = "load_done"
    /\ cmd[p].name = "caller"
    /\ hist[p].owns = 0
    /\ \E d \in CallerDocs(mem[p]) : call_save(p, d, FALSE)
    /\ UNCHANGED <<primary, backup, temp, clock, cmd, found, faults, fd>>

\* ------------------------------------------------------------ environment

\* The process ends: the handler returned, or it was killed at any point.
process_exit(p) ==
    /\ pc[p] # "idle"
    /\ pc' = [pc EXCEPT ![p] = "idle"]
    /\ mem' = [mem EXCEPT ![p] = NoDoc]
    /\ cmd' = [cmd EXCEPT ![p] = NoCmd]
    /\ hist' = [hist EXCEPT ![p] = NoHist]
    /\ fd' = [fd EXCEPT ![p] = "closed"]
    /\ UNCHANGED <<primary, backup, temp, clock, found, faults>>

\* Time passes between invocations.
tick ==
    /\ \A q \in Procs : pc[q] = "idle"
    /\ clock < MaxClock
    /\ clock' = clock + 1
    /\ UNCHANGED <<primary, backup, temp, pc, mem, cmd, found, hist, faults, fd>>

\* What an existing file may be overwritten with from outside the program.
CorruptContents == {NotJson, json_dump(JsonNull), json_dump(JsonNoKeys)}

corrupt_primary ==
    /\ \A q \in Procs : pc[q] = "idle"
    /\ faults < MaxFaults
    /\ path_exists(primary)
    /\ \E c \in CorruptContents \ {primary} : primary' = c
    /\ faults' = faults + 1
    /\ UNCHANGED <<backup, temp, clock, pc, mem, cmd, found, hist, fd>>

corrupt_backup ==
    /\ \A q \in Procs : pc[q] = "idle"
    /\ faults < MaxFaults
    /\ path_exists(backup)
    /\ \E c \in CorruptContents \ {backup} : backup' = c
    /\ faults' = faults + 1
    /\ UNCHANGED <<primary, temp, clock, pc, mem, cmd, found, hist, fd>>

\* ---------------------------------------------------------- specifications

Init ==
    /\ primary = Absent
    /\ backup = Absent
    /\ temp = Absent
    /\ clock = 0
    /\ pc = [p \in Procs |-> "idle"]
    /\ mem = [p \in Procs |-> NoDoc]
    /\ cmd = [p \in Procs |-> NoCmd]
    /\ found = [p \in Procs |-> None]
    /\ hist = [p \in Procs |-> NoHist]
    /\ faults = 0
    /\ fd = [p \in Procs |-> "closed"]

Profiles == {"", "beginner"}

\* The store under one caller at a time.
Next ==
    \/ \E p \in Writers : load_model(p)
    \/ \E p \in Writers : save_model(p)
    \/ \E p \in Writers : caller_load(p)
    \/ \E p \in Writers : caller_save(p)
    \/ \E p \in Writers, profile \in Profiles, overwrite \in BOOLEAN :
          initialize_model(p, profile, overwrite)
    \/ \E p \in Writers : process_exit(p)
    \/ tick
    \/ corrupt_primary
    \/ corrupt_backup

Spec == Init /\ [][Next]_vars

\* ------------------------------------------------- the command handlers

\* main(), lines 1069-1070: `add <concept> <mastery> <confidence> [--related]`
run_add(p) == start_command(p, "add")

\* main(), lines 1071-1072: `update <concept> [--mastery N] [--confidence L]`
run_update(p) == start_command(p, "update")

\* The command handlers, one invocation at a time, on a disk whose writes
\* succeed and within one tick of the clock; the primary file may be
\* corrupted between invocations.
NextCmd ==
    \/ \E p \in Writers : load_model(p)
    \/ \E p \in Writers : save_steps(p)
    \/ \E p \in Writers : run_add(p)
    \/ \E p \in Writers : cmd_add(p)
    \/ \E p \in Writers : run_update(p)
    \/ \E p \in Writers : cmd_update(p)
    \/ \E p \in Writers : process_exit(p)
    \/ corrupt_primary

SpecCmd == Init /\ [][NextCmd]_vars

\* ------------------------------------------------------ find_concept alone

MaxNameLen == 1
MaxKeys == 2

\* Every name of at most MaxNameLen characters, the empty name included.
FindNames == UNION {[1..k -> Chars] : k \in 0..MaxNameLen}

\* The key sequences of a dict: at most MaxKeys keys, no key twice; two keys
\* may differ in case only (a file edited by hand).
KeySeqs ==
    {ks \in UNION {[1..k -> FindNames] : k \in 0..MaxKeys} :
        \A i, j \in 1..Len(ks) : i # j => ks[i] # ks[j]}

model_with_keys(ks) ==
    [get_default_model(0) EXCEPT !.concepts =
        [i \in 1..Len(ks) |-> [key |-> ks[i],
                               value |-> new_concept(50, "low", <<>>, 0)]]]

InitFind ==
    /\ primary = Absent
    /\ backup = Absent
    /\ temp = Absent
    /\ clock = 0
    /\ pc = [p \in Procs |-> "idle"]
    /\ \E ks \in KeySeqs :
          mem = [p \in Procs |-> IF p \in Writers THEN model_with_keys(ks) ELSE NoDoc]
    /\ cmd = [p \in Procs |-> NoCmd]
    /\ found = [p \in Procs |-> None]
    /\ hist = [p \in Procs |-> NoHist]
    /\ faults = 0
    /\ fd = [p \in Procs |-> "closed"]

\* key = find_concept(model, concept_name)
lookup(p) ==
    /\ \E concept_name \in FindNames :
          /\ cmd' = [cmd EXCEPT ![p] = [name |-> "find", concept_name |-> concept_name]]
          /\ found' = [found EXCEPT ![p] = find_concept(mem[p], concept_name)]
    /\ UNCHANGED <<primary, backup, temp, clock, pc, mem, hist, faults, fd>>

NextFind == \E p \in Writers : lookup(p)

SpecFind == InitFind /\ [][NextFind]_vars

\* ------------------------------------- notes, links and the session batch

\* main(), lines 1073-1080
run_struggle(p) == start_command(p, "struggle")
run_breakthrough(p) == start_command(p, "breakthrough")
run_link(p) == start_command(p, "link")
run_unlink(p) == start_command(p, "unlink")
\* main(), lines 1081-1082
run_session_end(p) == start_command(p, "session-end")

\* The documents the note commands start from: a is tracked, b is not.
NoteKeys == {<<<<"a">>>>}

\* No file yet, or a document saved at time 0 whose backup is the document
\* before it.
InitNotes ==
    /\ \/ primary = Absent /\ backup = Absent
       \/ \E ks \in NoteKeys :
             /\ primary = json_dump(model_with_keys(ks))
             /\ backup = json_dump(model_with_keys(<<>>))
    /\ temp = Absent
    /\ clock = 0
    /\ pc = [p \in Procs |-> "idle"]
    /\ mem = [p \in Procs |-> NoDoc]
    /\ cmd = [p \in Procs |-> NoCmd]
    /\ found = [p \in Procs |-> None]
    /\ hist = [p \in Procs |-> NoHist]
    /\ faults = 0
    /\ fd = [p \in Procs |-> "closed"]

\* The note commands and the session batch, one invocation at a time, on a
\* disk whose writes succeed and whose primary file stays valid (load_model
\* then is lines 52-62 and 79).
NextNotes ==
    \/ \E p \in Writers, profile \in Profiles, overwrite \in BOOLEAN :
          initialize_model(p, profile, overwrite)
    \/ \E p \in Writers : load_primary(p)
    \/ \E p \in Writers : save_steps(p)
    \/ \E p \in Writers : run_struggle(p)
    \/ \E p \in Writers : cmd_struggle(p)
    \/ \E p \in Writers : run_breakthrough(p)
    \/ \E p \in Writers : cmd_breakthrough(p)
    \/ \E p \in Writers : run_session_end(p)
    \/ \E p \in Writers : cmd_session_end(p)
    \/ \E p \in Writers : process_exit(p)

SpecNotes == InitNotes /\ [][NextNotes]_vars

\* link and unlink, likewise, with time passing between invocations.
NextLinks ==
    \/ \E p \in Writers, profile \in Profiles, overwrite \in BOOLEAN :
          initialize_model(p, profile, overwrite)
    \/ \E p \in Writers : load_primary(p)
    \/ \E p \in Writers : save_steps(p)
    \/ \E p \in Writers : run_link(p)
    \/ \E p \in Writers : cmd_link(p)
    \/ \E p \in Writers : run_unlink(p)
    \/ \E p \in Writers : cmd_unlink(p)
    \/ \E p \in Writers : process_exit(p)
    \/ tick

SpecLinks == InitNotes /\ [][NextLinks]_vars

\* ---------------------------------------------------------- link and show

\* main(), lines 1063-1064
run_show(p) == start_command(p, "show")

\* The documents link and show start from: a alone, a and b, or a and the
\* concept whose name is the empty string (what `add "" 10 low` creates).
ShowKeys == {<<<<"a">>>>, <<<<"a">>, <<"b">>>>, <<<<"a">>, <<>>>>}

InitShow ==
    /\ \/ primary = Absent /\ backup = Absent
       \/ \E ks \in ShowKeys :
             /\ primary = json_dump(model_with_keys(ks))
             /\ backup = json_dump(model_with_keys(<<>>))
    /\ temp = Absent
    /\ clock = 0
    /\ pc = [p \in Procs |-> "idle"]
    /\ mem = [p \in Procs |-> NoDoc]
    /\ cmd = [p \in Procs |-> NoCmd]
    /\ found = [p \in Procs |-> None]
    /\ hist = [p \in Procs |-> NoHist]
    /\ faults = 0
    /\ fd = [p \in Procs |-> "closed"]

\* link and show, one invocation at a time, on a disk whose writes succeed
\* and whose primary file stays valid.
NextShow ==
    \/ \E p \in Writers, profile \in Profiles, overwrite \in BOOLEAN :
          initialize_model(p, profile, overwrite)
    \/ \E p \in Writers : load_primary(p)
    \/ \E p \in Writers : save_steps(p)
    \/ \E p \in Writers : run_link(p)
    \/ \E p \in Writers : cmd_link(p)
    \/ \E p \in Writers : run_show(p)
    \/ \E p \in Writers : cmd_show(p)
    \/ \E p \in Writers : process_exit(p)

SpecShow == InitShow /\ [][NextShow]_vars

\* ------------------------------------------- add, update and session-end

\* The arguments the three commands are run with here: one concept, a
\* mastery below, at and above the ends of the range, and batches of update
\* items only.
MasteryAddArgs ==
    {args \in AddArgs : args.concept_name = <<"a">>}
MasteryUpdateArgs ==
    {args \in UpdateArgs : args.concept_name = <<"A">>}
MasterySessionArgs ==
    {args \in SessionArgs :
        /\ args.struggle = <<>>
        /\ args.breakthrough = <<>>
        /\ \A i \in 1..Len(args.update) :
              args.update[i] \in {<<<<"a">>, "80", "high">>,
                                  <<<<"a">>, "150", "medium">>,
                                  <<<<"a">>, "80", "sure">>}}

add_mastery(p) == cmd_add_of(p, MasteryAddArgs)
update_mastery(p) == cmd_update_of(p, MasteryUpdateArgs)
session_end_mastery(p) == cmd_session_end_of(p, MasterySessionArgs)

\* The three commands that write a mastery and a confidence, one invocation
\* at a time, starting without a file (load_model then returns the empty
\* document), on a disk whose writes succeed.
NextMastery ==
    \/ \E p \in Writers : load_primary(p)
    \/ \E p \in Writers : save_steps(p)
    \/ \E p \in Writers : run_add(p)
    \/ \E p \in Writers : add_mastery(p)
    \/ \E p \in Writers : run_update(p)
    \/ \E p \in Writers : update_mastery(p)
    \/ \E p \in Writers : run_session_end(p)
    \/ \E p \in Writers : session_end_mastery(p)
    \/ \E p \in Writers : process_exit(p)

SpecMastery == Init /\ [][NextMastery]_vars

\* ------------------------------------------------- add of the empty name

\* argparse, lines 944-951: the name is any string, the empty one included.
NamedAddArgs ==
    [name : {"add"}, concept_name : {<<>>, <<"a">>, <<"A">>},
     mastery : {MinMastery, MaxMastery}, confidence : {"low"}, related : {<<>>}]

add_named(p) == cmd_add_of(p, NamedAddArgs)

\* add alone, one invocation at a time, starting without a file, on a disk
\* whose writes succeed.
NextNames ==
    \/ \E p \in Writers : load_primary(p)
    \/ \E p \in Writers : save_steps(p)
    \/ \E p \in Writers : run_add(p)
    \/ \E p \in Writers : add_named(p)
    \/ \E p \in Writers : process_exit(p)

SpecNames == Init /\ [][NextNames]_vars

\* --------------------------------------------------- add --related, links

\* --related "b" and --related "b,B", as the lists that line 400 splits them
\* into, and no --related.
RelatedLists == {<<>>, <<<<"b">>>>, <<<<"b">>, <<"B">>>>}

\* argparse, lines 944-951
RelatedAddArgs ==
    [name : {"add"}, concept_name : {<<"a">>}, mastery : {MinMastery},
     confidence : {"low"}, related : RelatedLists]

add_related(p) == cmd_add_of(p, RelatedAddArgs)

\* add with or without --related, link and unlink, one invocation at a
\* time, starting without a file, on a disk whose writes succeed.
NextRelated ==
    \/ \E p \in Writers : load_primary(p)
    \/ \E p \in Writers : save_steps(p)
    \/ \E p \in Writers : run_add(p)
    \/ \E p \in Writers : add_related(p)
    \/ \E p \in Writers : run_link(p)
    \/ \E p \in Writers : cmd_link(p)
    \/ \E p \in Writers : run_unlink(p)
    \/ \E p \in Writers : cmd_unlink(p)
    \/ \E p \in Writers : process_exit(p)

SpecRelated == Init /\ [][NextRelated]_vars

\* ------------------------------------------------------ the misconceptions

\* main(), lines 1083-1093
run_misconception_add(p) == start_command(p, "misconception add")
run_misconception_resolve(p) == start_command(p, "misconception resolve")

\* No file yet, or a document that tracks a and b.
InitMisc ==
    /\ \/ primary = Absent /\ backup = Absent
       \/ /\ primary = json_dump(model_with_keys(<<<<"a">>, <<"b">>>>))
          /\ backup = json_dump(model_with_keys(<<>>))
    /\ temp = Absent
    /\ clock = 0
    /\ pc = [p \in Procs |-> "idle"]
    /\ mem = [p \in Procs |-> NoDoc]
    /\ cmd = [p \in Procs |-> NoCmd]
    /\ found = [p \in Procs |-> None]
    /\ hist = [p \in Procs |-> NoHist]
    /\ faults = 0
    /\ fd = [p \in Procs |-> "closed"]

\* The misconception commands, one invocation at a time, on a disk whose
\* writes succeed and whose primary file stays valid.
NextMisc ==
    \/ \E p \in Writers, profile \in Profiles, overwrite \in BOOLEAN :
          initialize_model(p, profile, overwrite)
    \/ \E p \in Writers : load_primary(p)
    \/ \E p \in Writers : save_steps(p)
    \/ \E p \in Writers : run_misconception_add(p)
    \/ \E p \in Writers : cmd_misconception_add(p)
    \/ \E p \in Writers : run_misconception_resolve(p)
    \/ \E p \in Writers : cmd_misconception_resolve(p)
    \/ \E p \in Writers : process_exit(p)

SpecMisc == InitMisc /\ [][NextMisc]_vars

\* Beliefs that differ in case only, for one concept typed in either case.
BeliefAddArgs ==
    [name : {"misconception add"}, concept_name : {<<"a">>, <<"A">>},
     belief : {<<"b">>, <<"B">>, <<"a">>}, correction : {"c"}]

BeliefResolveArgs ==
    [name : {"misconception resolve"}, concept_name : {<<"a">>}, index : -2..1]

add_belief(p) == cmd_misconception_add_of(p, BeliefAddArgs)
resolve_belief(p) == cmd_misconception_resolve_of(p, BeliefResolveArgs)

\* The misconception commands on beliefs that differ in case only, with
\* time passing between invocations.
NextBelief ==
    \/ \E p \in Writers, profile \in Profiles, overwrite \in BOOLEAN :
          initialize_model(p, profile, overwrite)
    \/ \E p \in Writers : load_primary(p)
    \/ \E p \in Writers : save_steps(p)
    \/ \E p \in Writers : run_misconception_add(p)
    \/ \E p \in Writers : add_belief(p)
    \/ \E p \in Writers : run_misconception_resolve(p)
    \/ \E p \in Writers : resolve_belief(p)
    \/ \E p \in Writers : process_exit(p)
    \/ tick

SpecBelief == InitMisc /\ [][NextBelief]_vars

\* ------------------------------------------------- two concurrent writers

\* The documents two invocations hand to save_model: one has added concept
\* a, the other has initialised a profile.
RaceDocs ==
    {model_with_keys(<<<<"a">>>>),
     [model_with_keys(<<>>) EXCEPT !.metadata.student_profile = "beginner"]}

\* save_model(model) is called in process p while another process may be
\* inside save_model: there is no lock (lines 107-143).
race_save(p) ==
    /\ pc[p] = "idle"
    /\ cmd' = [cmd EXCEPT ![p] = [name |-> "save"]]
    /\ \E model \in RaceDocs :
          /\ mem' = [mem EXCEPT ![p] = model]
          /\ pc' = [pc EXCEPT ![p] = "save_model"]
          /\ hist' = [hist EXCEPT ![p] = [NoHist EXCEPT !.startAt = Files,
                                                        !.saveAt = Files,
                                                        !.saveArg = model,
                                                        !.owns = 1]]
    /\ UNCHANGED <<primary, backup, temp, clock, found, faults, fd>>

\* No file yet, or an empty document with its backup.
InitRace ==
    /\ \/ primary = Absent /\ backup = Absent
       \/ /\ primary = json_dump(model_with_keys(<<>>))
          /\ backup = json_dump(model_with_keys(<<>>))
    /\ temp = Absent
    /\ clock = 0
    /\ pc = [p \in Procs |-> "idle"]
    /\ mem = [p \in Procs |-> NoDoc]
    /\ cmd = [p \in Procs |-> NoCmd]
    /\ found = [p \in Procs |-> None]
    /\ hist = [p \in Procs |-> NoHist]
    /\ faults = 0
    /\ fd = [p \in Procs |-> "closed"]

\* Two processes, each running save_model once, step by step, on a disk
\* whose writes succeed.
NextRace ==
    \/ \E p \in Procs : race_save(p)
    \/ \E p \in Procs : save_steps(p)

SpecRace == InitRace /\ [][NextRace]_vars

\* ------------------------------------------------ two concurrent commands

\* A command starts in process p while another invocation may be running:
\* nothing in main() or load_model() waits for it.
race_start(p) ==
    /\ pc[p] = "idle"
    /\ cmd[p] = NoCmd
    /\ cmd' = [cmd EXCEPT ![p] = [name |-> "add"]]
    /\ pc' = [pc EXCEPT ![p] = "load_model"]
    /\ hist' = [hist EXCEPT ![p] = [NoHist EXCEPT !.startAt = Files, !.loads = 1]]
    /\ UNCHANGED <<primary, backup, temp, clock, mem, found, faults, fd>>

\* Each invocation adds a concept of its own: `add a 0 low`, `add b 0 low`.
RaceAddArgs(p) ==
    [name : {"add"}, concept_name : {IF p = 1 THEN <<"a">> ELSE <<"b">>},
     mastery : {MinMastery}, confidence : {"low"}, related : {<<>>}]

race_add(p) == cmd_add_of(p, RaceAddArgs(p))

\* Two add invocations, each run once, interleaved at the single file
\* operations, on a disk whose writes succeed.
NextLost ==
    \/ \E p \in Procs : race_start(p)
    \/ \E p \in Procs : load_primary(p)
    \/ \E p \in Procs : race_add(p)
    \/ \E p \in Procs : save_steps(p)

SpecLost == InitRace /\ [][NextLost]_vars

\* ------------------------------------------------------------- properties

\* save_model has returned in process p and nothing has run since.
SaveReturned(p) ==
    /\ pc[p] \in {"save_done", "load_done"}
    /\ hist[p].lastSave # "none"

\* load_model has returned in process p and nothing has run since.
LoadReturned(p) ==
    /\ pc[p] = "load_done"
    /\ hist[p].loads = 1

\* Two documents that differ at most in metadata.last_updated.
EqualButLastUpdated(a, b) ==
    [a EXCEPT !.metadata = set_field(@, "last_updated", 0)]
        = [b EXCEPT !.metadata = set_field(@, "last_updated", 0)]

\* C1: whenever save_model returns False, the primary file holds exactly the
\* content it held before the call.
C1_FailedSaveLeavesPrimary ==
    \A p \in Writers :
        (SaveReturned(p) /\ hist[p].lastSave = "False")
            => primary = hist[p].saveAt.primary

\* C2: with a single writer the primary file is never a partially written
\* document: in every state of a save_model call it is what it was before
\* the call (absent included) or the complete new document, and it is in no
\* state a truncated write.
C2_PrimaryNeverPartial ==
    /\ primary # Truncated
    /\ \A p \in Writers :
        (pc[p] \in IOSteps \cup {"save_model", "save_done"} \/ SaveReturned(p))
            => \/ primary = hist[p].saveAt.primary
               \/ /\ primary = json_dump(mem[p])
                  /\ validate_model(mem[p]) = "True"

C2_Witness ==
    \E p \in Writers :
        /\ pc[p] = "save_post"
        /\ path_exists(hist[p].saveAt.primary)
        /\ primary # hist[p].saveAt.primary
        /\ primary = json_dump(mem[p])

\* C3: with a corrupt primary and a valid backup, load_model returns the
\* backup's content (metadata.last_updated apart) and, unless the write
\* failed, has rewritten it as the new primary.
C3_RestoresBackup ==
    \A p \in Writers :
        (LoadReturned(p) /\ IsCorrupt(hist[p].startAt.primary)
                         /\ HoldsValid(hist[p].startAt.backup))
            => /\ validate_model(hist[p].loaded) = "True"
               /\ EqualButLastUpdated(hist[p].loaded,
                                      json_load(hist[p].startAt.backup))
               /\ hist[p].lastSave # "False" => primary = json_dump(hist[p].loaded)

\* C4: after a successful save_model made while a primary existed, the backup
\* is the content the primary held before the call; after a first successful
\* save with neither primary nor backup, the backup is the primary just written.
C4_BackupIsPreviousPrimary ==
    \A p \in Writers :
        (SaveReturned(p) /\ hist[p].lastSave = "True")
            => /\ path_exists(hist[p].saveAt.primary)
                    => backup = hist[p].saveAt.primary
               /\ (~path_exists(hist[p].saveAt.primary)
                     /\ ~path_exists(hist[p].saveAt.backup))
                    => (backup = primary /\ primary = json_dump(mem[p]))

C4_Witness ==
    \E p \in Writers :
        /\ SaveReturned(p)
        /\ hist[p].lastSave = "True"
        /\ HoldsValid(hist[p].saveAt.primary)
        /\ path_exists(hist[p].saveAt.backup)
        /\ hist[p].saveAt.backup # hist[p].saveAt.primary
        /\ backup = hist[p].saveAt.primary
        /\ primary # backup

\* C5: save_model called with a document that fails validate_model returns
\* False and leaves the primary, backup and temporary files unchanged.
LacksRequired(d) ==
    \/ \E k \in {"metadata", "concepts", "sessions"} : k \notin DOMAIN d
    \/ \E k \in {"created", "last_updated"} : k \notin DOMAIN d.metadata

C5_InvalidModelNotSaved ==
    \A p \in Writers :
        (SaveReturned(p) /\ LacksRequired(hist[p].saveArg))
            => /\ hist[p].lastSave = "False"
               /\ Files = hist[p].saveAt

C5_Witness ==
    \E p \in Writers :
        /\ SaveReturned(p)
        /\ "metadata" \in DOMAIN hist[p].saveArg
        /\ "last_updated" \notin DOMAIN hist[p].saveArg.metadata
        /\ HoldsValid(primary)

\* C6: with a corrupt primary and a backup that is absent or not a valid
\* document, load_model returns the default document (concepts empty) and
\* writes nothing to the primary or the backup file.
C6_NoBackupGivesDefault ==
    \A p \in Writers :
        (LoadReturned(p) /\ IsCorrupt(hist[p].startAt.primary)
                         /\ ~HoldsValid(hist[p].startAt.backup))
            => /\ hist[p].loaded = get_default_model(clock)
               /\ hist[p].loaded.concepts = <<>>
               /\ hist[p].heals = 0
               /\ primary = hist[p].startAt.primary
               /\ backup = hist[p].startAt.backup

C6_Witness ==
    \E p \in Writers :
        /\ LoadReturned(p)
        /\ hist[p].startAt.primary = json_dump(JsonNoKeys)
        /\ IsCorrupt(hist[p].startAt.backup)

\* C7 as stated: when no primary file exists, load_model returns a default
\* document and no primary, backup or temporary file exists after the call.
C7_NoFileAfterLoad ==
    \A p \in Writers :
        (LoadReturned(p) /\ ~path_exists(hist[p].startAt.primary))
            => /\ hist[p].loaded = get_default_model(clock)
               /\ ~path_exists(primary)
               /\ ~path_exists(backup)
               /\ ~path_exists(temp)

\* C7 as amended: when no primary file exists, load_model returns a default
\* document and persists nothing: it calls no save_model and the primary
\* (still absent), backup and temporary files are as they were before the call.
C7_LoadPersistsNothing ==
    \A p \in Writers :
        (LoadReturned(p) /\ ~path_exists(hist[p].startAt.primary))
            => /\ hist[p].loaded = get_default_model(clock)
               /\ hist[p].heals = 0
               /\ ~path_exists(primary)
               /\ Files = hist[p].startAt

C7_Witness ==
    \E p \in Writers :
        /\ LoadReturned(p)
        /\ ~path_exists(hist[p].startAt.primary)
        /\ path_exists(temp)

\* C8: for a valid persisted document, save_model(load_model()) leaves the
\* primary holding a document equal to the original in every field except
\* metadata.last_updated.
C8_RoundTrip ==
    \A p \in Writers :
        (pc[p] = "save_done" /\ hist[p].loads = 1
            /\ HoldsValid(hist[p].startAt.primary)
            /\ hist[p].saveArg = hist[p].loaded)
            => /\ HoldsValid(primary)
               /\ EqualButLastUpdated(json_load(primary),
                                      json_load(hist[p].startAt.primary))

C8_Witness ==
    \E p \in Writers :
        /\ pc[p] = "save_done"
        /\ hist[p].loads = 1
        /\ HoldsValid(hist[p].startAt.primary)
        /\ hist[p].saveArg = hist[p].loaded
        /\ hist[p].lastSave = "True"
        /\ json_load(hist[p].startAt.primary).concepts # <<>>
        /\ primary # hist[p].startAt.primary

\* The command of process p was given a mastery outside [0,100].
HasBadMastery(p) ==
    \/ /\ cmd[p].name = "add"
       /\ "mastery" \in DOMAIN cmd[p]
       /\ (cmd[p].mastery < 0 \/ cmd[p].mastery > 100)
    \/ /\ cmd[p].name = "update"
       /\ "mastery" \in DOMAIN cmd[p]
       /\ cmd[p].mastery # <<>>
       /\ (cmd[p].mastery[1] < 0 \/ cmd[p].mastery[1] > 100)

\* C9 as stated: an add or update with a mastery outside [0,100] is rejected,
\* no save is performed and the persisted document is unchanged.
C9_RejectedNoSaveAtAll ==
    \A p \in Writers :
        HasBadMastery(p)
            => /\ pc[p] = "cmd_done"
               /\ hist[p].owns = 0
               /\ hist[p].heals = 0
               /\ primary = hist[p].startAt.primary

\* C9 as amended: an add or update with a mastery outside [0,100] is rejected:
\* the command calls no save_model of its own and leaves the loaded document
\* as it was loaded; the files are unchanged unless load_model restored a
\* corrupt primary from a valid backup.
C9_RejectedCommandSavesNothing ==
    \A p \in Writers :
        HasBadMastery(p)
            => /\ pc[p] = "cmd_done"
               /\ hist[p].owns = 0
               /\ mem[p] = hist[p].loaded
               /\ hist[p].heals = 0 => Files = hist[p].startAt
               /\ hist[p].heals > 0 => /\ IsCorrupt(hist[p].startAt.primary)
                                       /\ HoldsValid(hist[p].startAt.backup)

C9_Witness ==
    \E p \in Writers :
        /\ HasBadMastery(p)
        /\ cmd[p].name = "update"
        /\ cmd[p].mastery = <<-1>>
        /\ truthy(find_concept(mem[p], cmd[p].concept_name))
        /\ HoldsValid(primary)

\* C10: find_concept returns a stored key whose lower-cased form equals the
\* lower-cased name, in its stored casing, and returns None exactly when no
\* stored key matches case-insensitively.
C10_FindConcept ==
    \A p \in Writers :
        cmd[p].name = "find"
            => LET keys == dict_keys(mem[p].concepts)
                   name == cmd[p].concept_name
                   Matches(k) == \A i \in 1..Len(k) :
                                    lower_char(k[i]) = lower_char(name[i])
               IN  /\ found[p] # None
                        => /\ found[p] \in keys
                           /\ Len(found[p]) = Len(name)
                           /\ Matches(found[p])
                   /\ found[p] = None
                        <=> ~\E k \in keys : Len(k) = Len(name) /\ Matches(k)

C10_Witness ==
    \E p \in Writers :
        /\ cmd[p].name = "find"
        /\ cmd[p].concept_name = <<"A">>
        /\ found[p] = <<"a">>
        /\ Len(mem[p].concepts) = MaxKeys

\* Two names that are equal when the case of their letters is ignored.
SameLetters(a, b) ==
    /\ Len(a) = Len(b)
    /\ \A i \in 1..Len(a) :
          \/ a[i] = b[i]
          \/ {a[i], b[i]} = {"a", "A"}
          \/ {a[i], b[i]} = {"b", "B"}

\* C11: the persisted document never holds two concept keys that are equal
\* under case-insensitive comparison, and an add whose name matches a key of
\* the loaded document in any casing returns without a save of its own.
C11_NamesUniqueIgnoringCase ==
    /\ HoldsValid(primary)
          => LET concepts == json_load(primary).concepts
             IN  \A i, j \in 1..Len(concepts) :
                    i # j => ~SameLetters(concepts[i].key, concepts[j].key)
    /\ \A p \in Writers :
          (cmd[p].name = "add" /\ "concept_name" \in DOMAIN cmd[p]
              /\ \E k \in dict_keys(hist[p].loaded.concepts) :
                    SameLetters(k, cmd[p].concept_name))
            => /\ pc[p] = "cmd_done"
               /\ hist[p].owns = 0
               /\ mem[p] = hist[p].loaded

\* The struggle or breakthrough text `description` is already logged for the
\* concept that `name` denotes in document d.
AlreadyLogged(d, name, description, field) ==
    \E i \in 1..Len(d.concepts) :
        /\ SameLetters(d.concepts[i].key, name)
        /\ \E k \in 1..Len(d.concepts[i].value[field]) :
              d.concepts[i].value[field][k] = description

\* The session-end of process p was asked for nothing but texts that are
\* already logged.
OnlyDuplicates(p) ==
    /\ cmd[p].name = "session-end"
    /\ "changes" \in DOMAIN cmd[p]
    /\ cmd[p].update = <<>>
    /\ Len(cmd[p].struggle) + Len(cmd[p].breakthrough) > 0
    /\ \A i \in 1..Len(cmd[p].struggle) :
          /\ Len(cmd[p].struggle[i]) >= 2
          /\ AlreadyLogged(hist[p].loaded, cmd[p].struggle[i][1],
                           Tail(cmd[p].struggle[i]), "struggles")
    /\ \A i \in 1..Len(cmd[p].breakthrough) :
          /\ Len(cmd[p].breakthrough[i]) >= 2
          /\ AlreadyLogged(hist[p].loaded, cmd[p].breakthrough[i][1],
                           Tail(cmd[p].breakthrough[i]), "breakthroughs")

\* C12: logging a struggle or breakthrough text that is already present for
\* the concept leaves the concept's sequence unchanged, and no save occurs
\* when it is the only requested change, through the struggle and
\* breakthrough commands and through session-end.
C12_DuplicateNoteIsNoOp ==
    \A p \in Writers :
        /\ (cmd[p].name = "struggle" /\ "description" \in DOMAIN cmd[p]
              /\ AlreadyLogged(hist[p].loaded, cmd[p].concept_name,
                               cmd[p].description, "struggles"))
             => (pc[p] = "cmd_done" /\ hist[p].owns = 0 /\ mem[p] = hist[p].loaded)
        /\ (cmd[p].name = "breakthrough" /\ "description" \in DOMAIN cmd[p]
              /\ AlreadyLogged(hist[p].loaded, cmd[p].concept_name,
                               cmd[p].description, "breakthroughs"))
             => (pc[p] = "cmd_done" /\ hist[p].owns = 0 /\ mem[p] = hist[p].loaded)
        /\ OnlyDuplicates(p)
             => (pc[p] = "cmd_done" /\ hist[p].owns = 0 /\ mem[p] = hist[p].loaded)

\* Entry k of the misconception list `old` is an unresolved misconception of
\* the concept that `name` denotes.
UnresolvedOf(old, k, name) ==
    SameLetters(old[k].concept, name) /\ ~old[k].resolved

\* C13: misconception resolve <concept> <i> with 0 <= i < n, n the number of
\* unresolved misconceptions of the concept, marks as resolved exactly the
\* entry that is unresolved, belongs to the concept and has i such entries
\* before it; every other entry is unchanged, also in the primary file once
\* the save has returned True.
C13_ResolvesIthUnresolved ==
    \A p \in Writers :
        (cmd[p].name = "misconception resolve" /\ "index" \in DOMAIN cmd[p])
          => LET old == hist[p].loaded.misconceptions
                 name == cmd[p].concept_name
                 Mine == {k \in 1..Len(old) : UnresolvedOf(old, k, name)}
                 Target(k) == /\ k \in Mine
                              /\ Cardinality({m \in Mine : m < k}) = cmd[p].index
                 Expected == [k \in 1..Len(old) |->
                                IF Target(k)
                                  THEN [old[k] EXCEPT !.resolved = TRUE,
                                                      !.date_resolved = <<clock>>]
                                  ELSE old[k]]
             IN  (0 <= cmd[p].index /\ cmd[p].index < Cardinality(Mine))
                   => /\ pc[p] # "cmd_done"
                      /\ hist[p].owns = 1
                      /\ mem[p].misconceptions = Expected
                      /\ mem[p].concepts = hist[p].loaded.concepts
                      /\ (pc[p] = "save_done" /\ hist[p].lastSave = "True")
                            => json_load(primary).misconceptions = Expected

\* The first unresolved misconception of b is resolved; it stands behind a
\* resolved one of b and an unresolved one of a.
C13_Witness ==
    \E p \in Writers :
        /\ cmd[p].name = "misconception resolve"
        /\ "index" \in DOMAIN cmd[p]
        /\ cmd[p].index = 0
        /\ cmd[p].concept_name = <<"b">>
        /\ pc[p] = "save_done"
        /\ hist[p].lastSave = "True"
        /\ LET old == hist[p].loaded.misconceptions
               new == json_load(primary).misconceptions
           IN  /\ Len(old) >= 3
               /\ old[1].concept = <<"b">> /\ old[1].resolved
               /\ old[2].concept = <<"a">> /\ ~old[2].resolved
               /\ old[3].concept = <<"b">> /\ ~old[3].resolved
               /\ new[3].resolved
               /\ ~new[2].resolved

\* Document d tracks a concept that `name` denotes.
Tracks(d, name) == \E k \in dict_keys(d.concepts) : SameLetters(k, name)

\* A well-formed update item for d: three segments, a mastery in [0,100], a
\* confidence of the enum, a tracked concept.
GoodUpdate(d, u) ==
    /\ Len(u) = 3
    /\ u[2] \in {"0", "80"}
    /\ u[3] \in {"low", "medium", "high"}
    /\ Tracks(d, u[1])

\* A well-formed struggle or breakthrough item for d.
GoodNote(d, n) == Len(n) >= 2 /\ Tracks(d, n[1])

MasteryOf(text) == IF text = "80" THEN 80 ELSE 0

\* The items of a list that satisfy Good, in order.
Keep(items, Good(_)) == SelectSeq(items, Good)

AppliedSome(p) ==
    LET d == hist[p].loaded
    IN  \/ \E i \in 1..Len(cmd[p].update) : GoodUpdate(d, cmd[p].update[i])
        \/ \E i \in 1..Len(cmd[p].struggle) :
              /\ GoodNote(d, cmd[p].struggle[i])
              /\ ~AlreadyLogged(d, cmd[p].struggle[i][1],
                                Tail(cmd[p].struggle[i]), "struggles")
        \/ \E i \in 1..Len(cmd[p].breakthrough) :
              /\ GoodNote(d, cmd[p].breakthrough[i])
              /\ ~AlreadyLogged(d, cmd[p].breakthrough[i][1],
                                Tail(cmd[p].breakthrough[i]), "breakthroughs")

\* C15: a session-end invocation calls save_model exactly once if at least
\* one of its items was applied as a change, and not at all otherwise (every
\* item failed or was a no-op).
C15_OneSaveIffApplied ==
    \A p \in Writers :
        (cmd[p].name = "session-end" /\ "changes" \in DOMAIN cmd[p])
          => /\ AppliedSome(p) => hist[p].owns + hist[p].heals = 1
             /\ ~AppliedSome(p) => hist[p].owns + hist[p].heals = 0

\* C16: every command that has changed a concept record and saved it (add,
\* update, struggle, breakthrough, link, unlink) has set that concept's
\* last_reviewed to the current time in the persisted document.
C16_MutationRefreshesLastReviewed ==
    \A p \in Writers :
        (/\ cmd[p].name \in {"add", "update", "struggle", "breakthrough",
                             "link", "unlink"}
         /\ "concept_name" \in DOMAIN cmd[p]
         /\ pc[p] = "save_done"
         /\ hist[p].lastSave = "True")
          => LET concepts == json_load(primary).concepts
             IN  \A i \in 1..Len(concepts) :
                    SameLetters(concepts[i].key, cmd[p].concept_name)
                      => concepts[i].value.last_reviewed = clock

\* C17 as stated: every command invocation performs at most one load_model
\* and at most one save_model, whatever the state of the primary and backup
\* files.
C17_OneLoadOneSave ==
    \A p \in Writers :
        /\ hist[p].loads <= 1
        /\ hist[p].owns + hist[p].heals <= 1

\* C17 as amended: every command invocation performs at most one load_model
\* and at most one save_model call of its own; load_model makes one more
\* save_model call exactly when it restores a corrupt primary from a valid
\* backup, and only then can the invocation write the primary twice.
C17_OneLoadOneOwnSave ==
    \A p \in Writers :
        /\ hist[p].loads <= 1
        /\ hist[p].owns <= 1
        /\ hist[p].heals <= 1
        /\ hist[p].heals = 1
             => /\ IsCorrupt(hist[p].startAt.primary)
                /\ HoldsValid(hist[p].startAt.backup)
        /\ (pc[p] \in {"load_done", "save_done", "cmd_done"}
              /\ hist[p].loads = 1
              /\ path_exists(hist[p].startAt.primary)
              /\ (~json_parses(hist[p].startAt.primary)
                    \/ validate_model(json_load(hist[p].startAt.primary)) = "False")
              /\ HoldsValid(hist[p].startAt.backup))
             => hist[p].heals = 1

\* An add that follows the restore: two save_model calls in one invocation.
C17_Witness ==
    \E p \in Writers :
        /\ cmd[p].name = "add"
        /\ pc[p] = "save_done"
        /\ hist[p].loads = 1
        /\ hist[p].heals = 1
        /\ hist[p].owns = 1
        /\ hist[p].lastSave = "True"

\* The positions inside load_model and save_model.
StoreLabels ==
    {"load_model", "load_invalid", "load_except", "save_model", "save_backup",
     "save_backup_copy", "save_temp", "save_temp_write", "save_rename",
     "save_post", "save_post_copy"}

\* C18: load_model and save_model never raise to the caller: from every
\* position inside them, for every state of the primary and backup files,
\* there is a next step; what load_model returns passes validate_model and
\* what save_model returns is True or False.
C18_StoreNeverRaises ==
    \A p \in Writers :
        /\ pc[p] \in StoreLabels => ENABLED (load_model(p) \/ save_model(p))
        /\ LoadReturned(p)
             => /\ validate_model(hist[p].loaded) = "True"
                /\ mem[p] = hist[p].loaded
        /\ SaveReturned(p) => hist[p].lastSave \in {"True", "False"}

\* Malformed primary, malformed backup: the default document is returned.
C18_Witness ==
    \E p \in Writers :
        /\ LoadReturned(p)
        /\ hist[p].startAt.primary = NotJson
        /\ hist[p].startAt.backup = Truncated
        /\ validate_model(hist[p].loaded) = "True"

\* C19: when two processes run save_model concurrently, interleaved at the
\* single file operations, then once both have finished each save has
\* returned True and the primary file is the complete document of the
\* process whose rename happened last.
C19_LastRenameWins ==
    (\A p \in Procs : pc[p] = "save_done")
      => /\ \A p \in Procs : hist[p].lastSave = "True"
         /\ \E p \in Procs : /\ hist[p].renamedLast
                             /\ primary = json_dump(mem[p])

\* C20: the temporary file exists only inside a save_model call: whenever
\* save_model has returned, with True or with False, no temporary file is
\* left on disk.
C20_NoTempAfterSave ==
    \A p \in Writers :
        SaveReturned(p) => ~path_exists(temp)

\* The key of d that `name` denotes.
KeyOf(d, name) == CHOOSE k \in dict_keys(d.concepts) : SameLetters(k, name)

\* C21: link <concept> <related> succeeds whenever <concept> is tracked,
\* whether or not <related> is: unless a link to <related> is there already,
\* the document handed to save_model has the link appended, as the stored
\* key if <related> is tracked and as the given name otherwise; and show
\* prints "(not tracked)" for a related name exactly when no concept matches
\* the name case-insensitively.
C21_LinkAndShow ==
    \A p \in Writers :
        /\ (/\ cmd[p].name = "link"
            /\ "related_concept" \in DOMAIN cmd[p]
            /\ Tracks(hist[p].loaded, cmd[p].concept_name))
             => LET d == hist[p].loaded
                    k == KeyOf(d, cmd[p].concept_name)
                    old == dict_get(d.concepts, k).related_concepts
                    r == cmd[p].related_concept
                IN  IF \E i \in 1..Len(old) : SameLetters(old[i], r)
                      THEN pc[p] = "cmd_done" /\ hist[p].owns = 0
                      ELSE /\ hist[p].owns = 1
                           /\ Tracks(hist[p].saveArg, cmd[p].concept_name)
                           /\ dict_get(hist[p].saveArg.concepts, k).related_concepts
                                 = Append(old, IF Tracks(d, r) THEN KeyOf(d, r) ELSE r)
        /\ (cmd[p].name = "show" /\ "lines" \in DOMAIN cmd[p] /\ cmd[p].shown)
             => \A i \in 1..Len(cmd[p].lines) :
                    cmd[p].lines[i].tracked
                      <=> Tracks(hist[p].loaded, cmd[p].lines[i].rel_name)

\* C22: after any sequence of add, update and session-end commands that
\* starts without a document, every concept of the persisted document has
\* an integer mastery from 0 to 100 and a confidence among low, medium and
\* high.
C22_MasteryAndConfidenceInRange ==
    path_exists(primary)
      => /\ HoldsValid(primary)
         /\ LET concepts == json_load(primary).concepts
            IN  \A i \in 1..Len(concepts) :
                   /\ concepts[i].value.mastery \in 0..100
                   /\ concepts[i].value.confidence \in {"low", "medium", "high"}

\* A batch whose first item has mastery 150 and whose second item was
\* applied: the persisted concept holds the second item's values.
C22_Witness ==
    \E p \in Writers :
        /\ cmd[p].name = "session-end"
        /\ "errors" \in DOMAIN cmd[p]
        /\ cmd[p].update = <<<<<<"a">>, "150", "medium">>, <<<<"a">>, "80", "high">>>>
        /\ pc[p] = "save_done"
        /\ hist[p].lastSave = "True"
        /\ Len(json_load(primary).concepts) = 1
        /\ json_load(primary).concepts[1].value.mastery = 80
        /\ json_load(primary).concepts[1].value.confidence = "high"
        /\ json_load(hist[p].startAt.primary).concepts[1].value.mastery = 100

\* C23: after any sequence of add (with or without --related), link and
\* unlink commands, no concept's related_concepts in the persisted document
\* holds two entries that are equal when case is ignored.
C23_RelatedUniqueIgnoringCase ==
    HoldsValid(primary)
      => LET concepts == json_load(primary).concepts
         IN  \A i \in 1..Len(concepts) :
                LET related == concepts[i].value.related_concepts
                IN  \A j, k \in 1..Len(related) :
                       j # k => ~SameLetters(related[j], related[k])

\* Two misconceptions with the same key: the same concept and the same
\* belief when case is ignored.
SameKey(m, concept, belief) ==
    SameLetters(m.concept, concept) /\ SameLetters(m.belief, belief)

\* C24: after any sequence of misconception add and resolve commands no two
\* misconceptions of the persisted document, resolved or not, have the same
\* concept and belief when case is ignored; an add whose concept and belief
\* match an entry of the loaded document calls no save and leaves the
\* document and the files as they were.
C24_MisconceptionsUniqueIgnoringCase ==
    /\ HoldsValid(primary)
          => LET ms == json_load(primary).misconceptions
             IN  \A i, j \in 1..Len(ms) :
                    i # j => ~SameKey(ms[i], ms[j].concept, ms[j].belief)
    /\ \A p \in Writers :
          (/\ cmd[p].name = "misconception add"
           /\ "belief" \in DOMAIN cmd[p]
           /\ \E i \in 1..Len(hist[p].loaded.misconceptions) :
                 SameKey(hist[p].loaded.misconceptions[i],
                         cmd[p].concept_name, cmd[p].belief))
            => /\ pc[p] = "cmd_done"
               /\ hist[p].owns = 0
               /\ mem[p] = hist[p].loaded
               /\ Files = hist[p].startAt

\* Belief "B" is added for concept "A" where belief "b" of concept "a" is
\* logged and resolved: nothing is saved.
C24_Witness ==
    \E p \in Writers :
        /\ cmd[p].name = "misconception add"
        /\ "belief" \in DOMAIN cmd[p]
        /\ cmd[p].concept_name = <<"A">>
        /\ cmd[p].belief = <<"B">>
        /\ pc[p] = "cmd_done"
        /\ HoldsValid(primary)
        /\ Len(json_load(primary).misconceptions) = 2
        /\ \E i \in 1..2 :
              /\ json_load(primary).misconceptions[i].belief = <<"b">>
              /\ json_load(primary).misconceptions[i].resolved

\* C25: misconception resolve <concept> <index> with a tracked concept and
\* an index that names none of its unresolved misconceptions (index < 0, or
\* index >= their number) is a NotFound outcome: no misconception is marked
\* resolved and save_model is not called.
C25_BadIndexIsNotFound ==
    \A p \in Writers :
        (/\ cmd[p].name = "misconception resolve"
         /\ "index" \in DOMAIN cmd[p]
         /\ Tracks(hist[p].loaded, cmd[p].concept_name)
         /\ LET old == hist[p].loaded.misconceptions
                Mine == {k \in 1..Len(old) :
                            UnresolvedOf(old, k, cmd[p].concept_name)}
            IN  cmd[p].index < 0 \/ cmd[p].index >= Cardinality(Mine))
          => /\ pc[p] = "cmd_done"
             /\ hist[p].owns = 0
             /\ mem[p] = hist[p].loaded

\* C26: misconception add and misconception resolve leave the concepts
\* mapping as it was loaded, in memory and in the persisted document (the
\* owning concept keeps its last_reviewed, mastery and lists), and a new
\* misconception names its concept by the stored key, not by the name as
\* typed.
C26_MisconceptionsLeaveConcepts ==
    \A p \in Writers :
        (/\ cmd[p].name \in {"misconception add", "misconception resolve"}
         /\ "concept_name" \in DOMAIN cmd[p])
          => /\ mem[p].concepts = hist[p].loaded.concepts
             /\ (pc[p] = "save_done" /\ hist[p].lastSave = "True")
                   => json_load(primary).concepts = hist[p].loaded.concepts
             /\ (cmd[p].name = "misconception add" /\ hist[p].owns = 1)
                   => LET ms == mem[p].misconceptions
                      IN  /\ Len(ms) = Len(hist[p].loaded.misconceptions) + 1
                          /\ ms[Len(ms)].concept
                                = KeyOf(hist[p].loaded, cmd[p].concept_name)

\* A misconception of "a" was added under the name "A" one tick after the
\* concept was last reviewed.
C26_Witness ==
    \E p \in Writers :
        /\ cmd[p].name = "misconception add"
        /\ "concept_name" \in DOMAIN cmd[p]
        /\ cmd[p].concept_name = <<"A">>
        /\ pc[p] = "save_done"
        /\ hist[p].lastSave = "True"
        /\ clock = 1
        /\ json_load(primary).misconceptions[1].concept = <<"a">>
        /\ json_load(primary).misconceptions[1].date_identified = 1
        /\ json_load(primary).concepts[1].key = <<"a">>
        /\ json_load(primary).concepts[1].value.last_reviewed = 0

\* Document-holding file f tracks a concept that `name` denotes.
FileTracks(f, name) == HoldsValid(f) /\ Tracks(json_load(f), name)

\* Both invocations have loaded the same document and both saves have
\* returned True.
BothSavedFromSameLoad ==
    /\ \A p \in Procs : pc[p] = "save_done" /\ hist[p].lastSave = "True"
    /\ hist[1].loaded = hist[2].loaded

\* C27: two concurrent invocations can lose an update.  Whenever both have
\* loaded the same document, each has added a concept of its own and both
\* saves have returned True, the primary file does not hold both concepts:
\* one of the two updates is lost (C27_Witness is the interleaving in which
\* the backup does not hold it either).
C27_LostUpdate ==
    BothSavedFromSameLoad
      => ~(FileTracks(primary, <<"a">>) /\ FileTracks(primary, <<"b">>))

\* Both loaded the empty document, both saves returned True, the primary
\* holds b alone and the backup holds neither a nor b.
C27_Witness ==
    /\ BothSavedFromSameLoad
    /\ hist[1].loaded.concepts = <<>>
    /\ FileTracks(primary, <<"b">>)
    /\ ~FileTracks(primary, <<"a">>)
    /\ HoldsValid(backup)
    /\ ~FileTracks(backup, <<"a">>)
    /\ ~FileTracks(backup, <<"b">>)

\* At least one of the primary and the backup file is a valid document.
OneFileValid(f) == HoldsValid(f.primary) \/ HoldsValid(f.backup)

\* C28: from a state where the backup file is a valid document, no step of
\* load_model or save_model (any intermediate point of a save or of the
\* self-healing restore, a crash between two file operations) leads to a
\* state where neither the primary nor the backup file is a valid document.
\* Steps of the program are the steps that are no external corruption.
C28_PrimaryOrBackupValid ==
    [][(faults' = faults /\ OneFileValid(Files))
          => OneFileValid([primary |-> primary', backup |-> backup',
                           temp |-> temp'])]_vars

\* The positions inside load_model itself.
LoadLabels == {"load_model", "load_invalid", "load_except"}

\* C29: load_model on an existing primary file that parses and passes
\* validate_model returns the primary's content, calls no save_model and
\* leaves the primary, backup and temporary files as they were; load_model
\* changes a file only on the path that restores the backup (a corrupt
\* primary and a valid backup).
C29_LoadHasNoSideEffects ==
    \A p \in Writers :
        /\ (LoadReturned(p) /\ HoldsValid(hist[p].startAt.primary))
             => /\ hist[p].loaded = json_load(hist[p].startAt.primary)
                /\ hist[p].heals = 0
                /\ Files = hist[p].startAt
        /\ ((pc[p] \in LoadLabels \/ LoadReturned(p)) /\ hist[p].heals = 0)
             => Files = hist[p].startAt
        /\ (hist[p].loads = 1 /\ hist[p].heals > 0)
             => /\ IsCorrupt(hist[p].startAt.primary)
                /\ HoldsValid(hist[p].startAt.backup)

\* A valid primary with a concept was loaded while a temporary file of an
\* earlier failed save lies next to it.
C29_Witness ==
    \E p \in Writers :
        /\ LoadReturned(p)
        /\ HoldsValid(hist[p].startAt.primary)
        /\ hist[p].loaded.concepts # <<>>
        /\ path_exists(temp)
        /\ HoldsValid(backup)
        /\ Files = hist[p].startAt
====
